---- MODULE Spec2Model ----
(***************************************************************************)
(* RoIHeads (inst_model/Mask_RCNN/net/RegionOfInterest/RoIHeads.py): the   *)
(* region-of-interest stage of Mask R-CNN.  The state is the object's      *)
(* fields plus a record of the last forward() call: its arguments, the     *)
(* values its collaborators returned, the locals of                        *)
(* select_training_samples, the returned (result, losses) pair and the     *)
(* order in which the collaborators were called.                           *)
(*                                                                         *)
(* Conventions.  A box is <<x1, y1, x2, y2>> with integer coordinates.  A  *)
(* real number is an exact fraction <<num, den>> with den > 0, compared by *)
(* cross-multiplication.  Tensors are sequences; TLA+ sequences start at   *)
(* 1, so position i here is index i-1 of the tensor, EXCEPT class labels    *)
(* and matched ground-truth indices stored in tensors, which keep the      *)
(* code's 0-based values (class 0 is the background, ground-truth index g  *)
(* is position g+1 of target.boxes).                                       *)
(***************************************************************************)
EXTENDS Integers, Sequences, FiniteSets, TLC

VARIABLES train_mode, mask_roi_pool, mask_predictor, num_samples,
          num_detections, phase, args, heads, smp, sel, result, losses,
          calls, target_read

vars == <<train_mode, mask_roi_pool, mask_predictor, num_samples,
          num_detections, phase, args, heads, smp, sel, result, losses,
          calls, target_read>>

(***************************************************************************)
(* Bounds of the model.                                                    *)
(***************************************************************************)
\* most proposals in one call of forward
MaxProposals == 2
\* most ground-truth boxes in one target
MaxGt == 2

(***************************************************************************)
(* Construction-time configuration and the input sets.                     *)
(***************************************************************************)
min_size == 1
\* num_samples and num_detections of the heads under study
NumSamplesSet == {1, 4}
NumDetectionsSet == {1, 2}
fg_iou_thresh == <<1, 2>>
bg_iou_thresh == <<3, 10>>
positive_fraction == <<1, 2>>
score_thresh == <<2, 5>>
nms_thresh == <<1, 2>>
\* (height, width) of the image
image_shape == <<2, 2>>

None == "None"
\* proposals handed to forward
BoxSet == {<<0, 0, 2, 2>>, <<0, 0, 4, 1>>}
\* ground-truth boxes of a target
GtBoxSet == {<<0, 0, 2, 2>>, <<0, 0, 2, 3>>}
\* ground-truth class labels: 1-indexed, 0 is the background
GtLabelSet == {1, 2}
\* rows of exp(class_logit): position c+1 holds e^logit of class c
LogitRows == {<<1, 1, 1>>, <<1, 3, 1>>, <<1, 1, 3>>, <<1, 3, 3>>}
\* one row of box_regression after the reshape to (N, C, 4): a delta per
\* class, <<dx, dy, exp(dw), exp(dh)>>, each an exact fraction
IdDelta == <<<<0, 1>>, <<0, 1>>, <<1, 1>>, <<1, 1>>>>
DownDelta == <<<<0, 1>>, <<1, 1>>, <<1, 1>>, <<1, 1>>>>
DeltaRows == {<<IdDelta, IdDelta, IdDelta>>, <<IdDelta, DownDelta, IdDelta>>,
              <<IdDelta, IdDelta, DownDelta>>}

(***************************************************************************)
(* Arithmetic and sequence helpers.                                        *)
(***************************************************************************)
Min(a, b) == IF a <= b THEN a ELSE b
Max(a, b) == IF a >= b THEN a ELSE b
Clamp(x, lo, hi) == Min(Max(x, lo), hi)

\* a >= b, a > b, a < b on fractions
FracGeq(a, b) == a[1] * b[2] >= b[1] * a[2]
FracGt(a, b) == a[1] * b[2] > b[1] * a[2]
FracLt(a, b) == a[1] * b[2] < b[1] * a[2]
FracEq(a, b) == a[1] * b[2] = b[1] * a[2]

RECURSIVE SumSeq(_)
SumSeq(s) == IF s = <<>> THEN 0 ELSE Head(s) + SumSeq(Tail(s))

\* a tensor holds its values: the sequence f with every entry evaluated
Tensor(f) == f \o <<>>
\* t[idx]: advanced indexing of tensor t by a tensor of positions
Index(t, idx) == Tensor([i \in 1..Len(idx) |-> t[idx[i]]])
\* t[:n] and t[n:]
Prefix(t, n) == SubSeq(t, 1, Min(n, Len(t)))
\* the positions, ascending, at which a boolean tensor holds (torch.where,
\* indexing by a mask)
RECURSIVE WhereFrom(_, _)
WhereFrom(mask, i) ==
  IF i > Len(mask) THEN <<>>
  ELSE (IF mask[i] THEN <<i>> ELSE <<>>) \o WhereFrom(mask, i + 1)
Where(mask) == WhereFrom(mask, 1)

SeqsUpTo(S, lo, hi) == UNION {[1..n -> S] : n \in lo..hi}
\* ordered selections of k distinct elements of the sequence s
Selections(s, k) ==
  {Index(s, p) : p \in {q \in [1..k -> 1..Len(s)] :
                          \A i, j \in 1..k : i # j => q[i] # q[j]}}

(***************************************************************************)
(* Utils.box_iou, Utils.Matcher, Utils.BalancedPositiveNegativeSampler,    *)
(* Utils.BoxCoder, Utils.process_box.                                      *)
(***************************************************************************)
Area(b) == (b[3] - b[1]) * (b[4] - b[2])
Inter(a, b) ==
  LET w == Min(a[3], b[3]) - Max(a[1], b[1])
      h == Min(a[4], b[4]) - Max(a[2], b[2])
  IN IF w > 0 /\ h > 0 THEN w * h ELSE 0
IoU(a, b) == <<Inter(a, b), Area(a) + Area(b) - Inter(a, b)>>
\* the (G, N) matrix of IoUs
box_iou(box_a, box_b) ==
  Tensor([g \in 1..Len(box_a) |->
            Tensor([n \in 1..Len(box_b) |-> IoU(box_a[g], box_b[n])])])

\* iou.max(dim=0): the best IoU of each column and the first row attaining it
Matcher(iou) ==
  LET G == Len(iou)
      N == Len(iou[1])
      best == Tensor([n \in 1..N |->
                 CHOOSE g \in 1..G :
                   /\ \A h \in 1..G : FracGeq(iou[g][n], iou[h][n])
                   /\ \A h \in 1..(g - 1) : FracLt(iou[h][n], iou[g][n])])
      value == Tensor([n \in 1..N |-> iou[best[n]][n]])
  IN [label |-> Tensor([n \in 1..N |->
                   IF FracLt(value[n], bg_iou_thresh) THEN 0
                   ELSE IF FracGeq(value[n], fg_iou_thresh) THEN 1
                   ELSE -1]),
      matched_idx |-> Tensor([n \in 1..N |-> best[n] - 1])]

\* the (pos_idx, neg_idx) pairs the sampler can return: random selections
\* of the positive and of the negative positions
Sampler(label) ==
  LET positive == Where(Tensor([i \in 1..Len(label) |-> label[i] = 1]))
      negative == Where(Tensor([i \in 1..Len(label) |-> label[i] = 0]))
      want == (num_samples * positive_fraction[1]) \div positive_fraction[2]
      num_pos == Min(Len(positive), want)
      num_neg == Min(Len(negative), num_samples - num_pos)
  IN {[pos_idx |-> p, neg_idx |-> n] :
        p \in Selections(positive, num_pos),
        n \in Selections(negative, num_neg)}

\* BoxCoder.encode of one pair with unit weights: <<dx, dy, exp(dw), exp(dh)>>
EncodeOne(ref, box) ==
  LET w == box[3] - box[1]
      h == box[4] - box[2]
      gw == ref[3] - ref[1]
      gh == ref[4] - ref[2]
  IN <<<<(2 * ref[1] + gw) - (2 * box[1] + w), 2 * w>>,
       <<(2 * ref[2] + gh) - (2 * box[2] + h), 2 * h>>,
       <<gw, w>>, <<gh, h>>>>
Encode(refs, boxes) ==
  Tensor([i \in 1..Len(refs) |-> EncodeOne(refs[i], boxes[i])])

\* BoxCoder.decode of one pair with unit weights
DecodeOne(d, box) ==
  LET w == box[3] - box[1]
      h == box[4] - box[2]
      cx2 == (2 * d[1][1] * w) \div d[1][2] + 2 * box[1] + w
      cy2 == (2 * d[2][1] * h) \div d[2][2] + 2 * box[2] + h
      pw == (d[3][1] * w) \div d[3][2]
      ph == (d[4][1] * h) \div d[4][2]
  IN <<(cx2 - pw) \div 2, (cy2 - ph) \div 2,
       (cx2 + pw) \div 2, (cy2 + ph) \div 2>>
Decode(deltas, boxes) ==
  Tensor([i \in 1..Len(boxes) |-> DecodeOne(deltas[i], boxes[i])])

ClipBox(b, shape) ==
  <<Clamp(b[1], 0, shape[2]), Clamp(b[2], 0, shape[1]),
    Clamp(b[3], 0, shape[2]), Clamp(b[4], 0, shape[1])>>
process_box(box, score, shape, minsz) ==
  LET clipped == Tensor([i \in 1..Len(box) |-> ClipBox(box[i], shape)])
      keep == Where(Tensor([i \in 1..Len(box) |->
                              /\ clipped[i][3] - clipped[i][1] >= minsz
                              /\ clipped[i][4] - clipped[i][2] >= minsz]))
  IN [box |-> Index(clipped, keep), score |-> Index(score, keep)]

(***************************************************************************)
(* RoIHeads.select_training_samples                                        *)
(***************************************************************************)
\* faulty variant: the ground-truth boxes are put before the proposals
CombinedProposals_GtFirst(proposal, gt_box) == gt_box \o proposal

\* torch.cat((proposal, gt_box))
CombinedProposals(proposal, gt_box) == proposal \o gt_box

\* the locals up to the sampler call
MatchLocals(proposal, target) ==
  LET cand == CombinedProposals(proposal, target.boxes)
      m == Matcher(box_iou(target.boxes, cand))
  IN [proposal |-> cand, pos_neg_label |-> m.label,
      matched_idx |-> m.matched_idx]

\* idx = torch.cat((pos_idx, neg_idx))
SampleIndex(pos_idx, neg_idx) == pos_idx \o neg_idx

\* faulty variant: the matched indices are not taken at the positive positions
RegressionTarget_Unindexed(gt_box, matched_idx, proposal, pos_idx) ==
  Encode(Tensor([i \in 1..Len(pos_idx) |-> gt_box[matched_idx[i] + 1]]),
         Index(proposal, pos_idx))

\* box_coder.encode(gt_box[matched_idx[pos_idx]], proposal[pos_idx])
RegressionTarget(gt_box, matched_idx, proposal, pos_idx) ==
  Encode(Tensor([i \in 1..Len(pos_idx) |->
                   gt_box[matched_idx[pos_idx[i]] + 1]]),
         Index(proposal, pos_idx))

\* faulty variant: the labels of the negative samples are not reset
SampleLabels_KeepMatched(gt_label, matched_idx, num_pos) ==
  Tensor([i \in 1..Len(matched_idx) |-> gt_label[matched_idx[i] + 1]])

\* label = gt_label[matched_idx]; label[num_pos:] = 0
SampleLabels(gt_label, matched_idx, num_pos) ==
  Tensor([i \in 1..Len(matched_idx) |->
            IF i > num_pos THEN 0 ELSE gt_label[matched_idx[i] + 1]])

\* the rest of the method: loc holds the locals up to the sampler call and
\* s the (pos_idx, neg_idx) pair the sampler returned
SelectTrainingSamples(loc, target, s) ==
  LET idx == SampleIndex(s.pos_idx, s.neg_idx)
      matched == Index(loc.matched_idx, idx)
  IN [proposal |-> Index(loc.proposal, idx),
      matched_idx |-> matched,
      label |-> SampleLabels(target.labels, matched, Len(s.pos_idx)),
      regression_target |->
        RegressionTarget(target.boxes, loc.matched_idx, loc.proposal,
                         s.pos_idx)]

(***************************************************************************)
(* RoIHeads.detect                                                         *)
(***************************************************************************)
\* C of class_logit.shape == (N, C): the rows of LogitRows have C entries
num_classes == 3

\* F.softmax(class_logit, dim=-1): entry c+1 of row n is the score of class c
softmax(class_logit) ==
  Tensor([n \in 1..Len(class_logit) |->
            Tensor([c \in 1..Len(class_logit[n]) |->
                      <<class_logit[n][c], SumSeq(class_logit[n])>>])])

\* faulty variant: the score threshold is not applied
ScoreKeep_All(score) == TRUE

\* score >= self.score_thresh
ScoreKeep(score) == FracGeq(score, score_thresh)

\* one class up to process_box: threshold, decode, clip and drop
ClassCandidates(image_class, pred_score, box_regression, proposal) ==
  LET keep == Where(Tensor([n \in 1..Len(proposal) |->
                              ScoreKeep(pred_score[n][image_class + 1])]))
      box == Index(proposal, keep)
      score == Tensor([i \in 1..Len(keep) |->
                         pred_score[keep[i]][image_class + 1]])
      box_delta == Tensor([i \in 1..Len(keep) |->
                             box_regression[keep[i]][image_class + 1]])
  IN process_box(Decode(box_delta, box), score, image_shape, min_size)

\* torchvision.ops.boxes.nms: visit the boxes by descending score (ord) and
\* keep a box unless its IoU with a box already kept exceeds the threshold
RECURSIVE NmsFrom(_, _, _, _, _)
NmsFrom(box, thresh, ord, i, kept) ==
  IF i > Len(ord) THEN kept
  ELSE IF \E j \in 1..Len(kept) : FracGt(IoU(box[ord[i]], box[kept[j]]), thresh)
       THEN NmsFrom(box, thresh, ord, i + 1, kept)
       ELSE NmsFrom(box, thresh, ord, i + 1, Append(kept, ord[i]))
Nms(box, thresh, ord) == NmsFrom(box, thresh, ord, 1, <<>>)

\* the orders nms may visit the boxes in: descending score, ties either way
NmsOrders(score) ==
  {p \in [1..Len(score) -> 1..Len(score)] :
     /\ \A i, j \in 1..Len(score) : i # j => p[i] # p[j]
     /\ \A i, j \in 1..Len(score) :
          i < j => FracGeq(score[p[i]], score[p[j]])}

\* faulty variant: the kept indices are not cut to num_detections
CapDetections_NoCap(keep) == keep

\* nms(box, score, self.nms_thresh)[:self.num_detections]
CapDetections(keep) == Prefix(keep, num_detections)

\* faulty variant: the labels start at the first foreground class as 0
ClassLabels_ZeroBased(keep, image_class) ==
  Tensor([i \in 1..Len(keep) |-> image_class - 1])

\* torch.full((len(keep),), image_class)
ClassLabels(keep, image_class) ==
  Tensor([i \in 1..Len(keep) |-> image_class])

\* one iteration of the loop over the foreground classes
DetectClass(image_class, pred_score, box_regression, proposal, ord) ==
  LET cand == ClassCandidates(image_class, pred_score, box_regression,
                              proposal)
      keep == CapDetections(Nms(cand.box, nms_thresh, ord))
  IN [boxes |-> Index(cand.box, keep),
      labels |-> ClassLabels(keep, image_class),
      scores |-> Index(cand.score, keep)]

\* range(1, num_classes)
ForegroundClasses == 1..(num_classes - 1)

\* box_regression.reshape(N, -1, 4) of a tensor without elements: the size
\* of the -1 dimension cannot be inferred and detect leaves by an exception
RuntimeError == [raised |-> "RuntimeError"]
Raises(d) == "raised" \in DOMAIN d

\* the loop and the three torch.cat; ords holds, for this class and the
\* later ones, the order nms visits the boxes in
RECURSIVE DetectFrom(_, _, _, _, _)
DetectFrom(image_class, pred_score, box_regression, proposal, ords) ==
  IF image_class \notin ForegroundClasses
  THEN [boxes |-> <<>>, labels |-> <<>>, scores |-> <<>>]
  ELSE LET d == DetectClass(image_class, pred_score, box_regression,
                            proposal, Head(ords))
           r == DetectFrom(image_class + 1, pred_score, box_regression,
                           proposal, Tail(ords))
       IN [boxes |-> d.boxes \o r.boxes, labels |-> d.labels \o r.labels,
           scores |-> d.scores \o r.scores]
Detect(class_logit, box_regression, proposal, ords) ==
  LET N == Len(class_logit)
  IN IF N = 0 THEN RuntimeError
     ELSE DetectFrom(1, softmax(class_logit), box_regression, proposal,
                     ords)

\* what nms's tie-breaking can be in one call of detect: an order per
\* foreground class, ords[c] for class c
RECURSIVE DetectOrdersFrom(_, _, _, _)
DetectOrdersFrom(image_class, pred_score, box_regression, proposal) ==
  IF image_class \notin ForegroundClasses THEN {<<>>}
  ELSE {<<o>> \o rest :
          o \in NmsOrders(ClassCandidates(image_class, pred_score,
                                          box_regression, proposal).score),
          rest \in DetectOrdersFrom(image_class + 1, pred_score,
                                    box_regression, proposal)}
DetectOrders(class_logit, box_regression, proposal) ==
  DetectOrdersFrom(1, softmax(class_logit), box_regression, proposal)

(***************************************************************************)
(* The collaborators of forward: the pooling operators return features     *)
(* that only the predictors read; the losses are kept as the terms they    *)
(* were computed from.                                                     *)
(***************************************************************************)
\* spatial size of a mask
MaskSide == 28

\* box_predictor in training mode: its output only feeds detection_loss
TrainHeads(proposal) ==
  [class_logit |-> Tensor([i \in 1..Len(proposal) |-> <<1, 1, 1>>]),
   box_regression |->
     Tensor([i \in 1..Len(proposal) |-> <<IdDelta, IdDelta, IdDelta>>])]

\* mask_predictor(mask_roi_pool(...)): one logit per box and class channel,
\* all different (one pixel stands for the MaskSide x MaskSide map)
MaskPredictor(K) ==
  [shape |-> <<K, num_classes, MaskSide, MaskSide>>,
   rows |-> Tensor([k \in 1..K |->
                      Tensor([c \in 1..num_classes |->
                                (k - 1) * num_classes + c - 10])])]

\* torch.sigmoid, in millionths, on the integers
Sigmoid(x) ==
  CASE x = -9 -> 123 [] x = -8 -> 335 [] x = -7 -> 911 [] x = -6 -> 2473
    [] x = -5 -> 6693 [] x = -4 -> 17986 [] x = -3 -> 47426
    [] x = -2 -> 119203 [] x = -1 -> 268941 [] x = 0 -> 500000
    [] x = 1 -> 731059 [] x = 2 -> 880797 [] x = 3 -> 952574
    [] x = 4 -> 982014 [] x = 5 -> 993307 [] x = 6 -> 997527
    [] x = 7 -> 999089 [] x = 8 -> 999665 [] x = 9 -> 999877
    [] x < -9 -> 45 [] x > 9 -> 999955

detection_loss(class_logit, box_regression, label, regression_target) ==
  [classifier_loss |-> <<"classifier_loss", label>>,
   box_reg_loss |-> <<"box_reg_loss", label, regression_target>>]

mask_loss(mask_logit, proposal, matched_idx, label, gt_mask) ==
  <<"mask_loss", proposal, matched_idx, label, gt_mask>>

\* torch.tensor(0)
ZeroTensor == <<0>>

(***************************************************************************)
(* The values of the call record.  A map ({} or dict(...)) is a record     *)
(* whose field keys holds the keys present; the other fields hold the      *)
(* entries, empty when the key is absent.                                  *)
(***************************************************************************)
NoTensor == [shape |-> <<>>, rows |-> <<>>]
EmptyResult ==
  [keys |-> {}, boxes |-> <<>>, labels |-> <<>>, scores |-> <<>>,
   masks |-> NoTensor]
EmptyLosses ==
  [keys |-> {}, roi_classifier_loss |-> <<>>, roi_box_loss |-> <<>>,
   roi_mask_loss |-> <<>>]
NoTarget == [boxes |-> <<>>, labels |-> <<>>, masks |-> None]
NoArgs == [proposal |-> <<>>, target |-> NoTarget]
NoHeads == [class_logit |-> <<>>, box_regression |-> <<>>]
NoSmp ==
  [proposal |-> <<>>, pos_neg_label |-> <<>>, matched_idx |-> <<>>,
   pos_idx |-> <<>>, neg_idx |-> <<>>]
NoSel ==
  [proposal |-> <<>>, matched_idx |-> <<>>, label |-> <<>>,
   regression_target |-> <<>>]

(***************************************************************************)
(* RoIHeads.forward                                                        *)
(***************************************************************************)
\* (self.mask_roi_pool is not None) and (self.mask_predictor is not None)
MaskConfigured == mask_roi_pool # None /\ mask_predictor # None

\* dict(roi_classifier_loss=classifier_loss, roi_box_loss=box_reg_loss)
DetectionLosses(h, s) ==
  LET l == detection_loss(h.class_logit, h.box_regression, s.label,
                          s.regression_target)
  IN [keys |-> {"roi_classifier_loss", "roi_box_loss"},
      roi_classifier_loss |-> l.classifier_loss,
      roi_box_loss |-> l.box_reg_loss,
      roi_mask_loss |-> <<>>]

\* dict(boxes=..., labels=..., scores=...) of detect
DetectResult(d) ==
  [keys |-> {"boxes", "labels", "scores"}, boxes |-> d.boxes,
   labels |-> d.labels, scores |-> d.scores, masks |-> NoTensor]

\* losses.update(dict(roi_mask_loss=...))
WithMaskLoss(l, m) ==
  [l EXCEPT !.keys = @ \cup {"roi_mask_loss"}, !.roi_mask_loss = m]

\* result.update(dict(masks=...))
WithMasks(r, m) == [r EXCEPT !.keys = @ \cup {"masks"}, !.masks = m]

\* faulty variant: no short-circuit on an empty positive prefix
TrainMaskBranch_NoShortCircuit(s, target, l) ==
  LET num_pos == Len(s.regression_target)
      mask_proposal == Prefix(s.proposal, num_pos)
  IN [losses |->
        WithMaskLoss(l, mask_loss(MaskPredictor(Len(mask_proposal)),
                                  mask_proposal,
                                  Prefix(s.matched_idx, num_pos),
                                  Prefix(s.label, num_pos), target.masks)),
      calls |-> <<"mask_roi_pool", "mask_predictor", "mask_loss">>]

\* the training half of the mask branch
TrainMaskBranch(s, target, l) ==
  LET num_pos == Len(s.regression_target)
      mask_proposal == Prefix(s.proposal, num_pos)
      pos_matched_idx == Prefix(s.matched_idx, num_pos)
      mask_label == Prefix(s.label, num_pos)
  IN IF Len(mask_proposal) = 0
     THEN [losses |-> WithMaskLoss(l, ZeroTensor), calls |-> <<>>]
     ELSE [losses |->
             WithMaskLoss(l, mask_loss(MaskPredictor(Len(mask_proposal)),
                                       mask_proposal, pos_matched_idx,
                                       mask_label, target.masks)),
           calls |-> <<"mask_roi_pool", "mask_predictor", "mask_loss">>]

\* torch.empty((0, 28, 28))
EmptyMasks == [shape |-> <<0, 28, 28>>, rows |-> <<>>]

\* faulty variant: the channel of the background class is taken for every row
SelectMaskChannel_Background(mask_logit, label) ==
  [shape |-> <<Len(label), mask_logit.shape[3], mask_logit.shape[4]>>,
   rows |-> Tensor([i \in 1..Len(label) |-> mask_logit.rows[i][1]])]

\* mask_logit[idx, label] with idx = arange(label.shape[0])
SelectMaskChannel(mask_logit, label) ==
  [shape |-> <<Len(label), mask_logit.shape[3], mask_logit.shape[4]>>,
   rows |-> Tensor([i \in 1..Len(label) |->
                      mask_logit.rows[i][label[i] + 1]])]

\* mask_logit.sigmoid()
MaskProb(t) ==
  [shape |-> t.shape,
   rows |-> Tensor([i \in 1..Len(t.rows) |-> Sigmoid(t.rows[i])])]

\* faulty variant: no short-circuit on an empty detection list
InferMaskBranch_NoShortCircuit(r) ==
  [result |->
     WithMasks(r, MaskProb(SelectMaskChannel(MaskPredictor(Len(r.boxes)),
                                             r.labels))),
   calls |-> <<"mask_roi_pool", "mask_predictor">>]

\* the inference half of the mask branch
InferMaskBranch(r) ==
  LET mask_proposal == r.boxes
  IN IF Len(mask_proposal) = 0
     THEN [result |-> WithMasks(r, EmptyMasks), calls |-> <<>>]
     ELSE [result |->
             WithMasks(r, MaskProb(SelectMaskChannel(
                            MaskPredictor(Len(mask_proposal)), r.labels))),
           calls |-> <<"mask_roi_pool", "mask_predictor">>]

\* forward with self.train_mode set; loc and s are the locals of
\* select_training_samples and what its sampler returned
ForwardTrain(loc, target, s) ==
  LET st == SelectTrainingSamples(loc, target, s)
      h == TrainHeads(st.proposal)
      l == DetectionLosses(h, st)
      m == IF MaskConfigured THEN TrainMaskBranch(st, target, l)
           ELSE [losses |-> l, calls |-> <<>>]
  IN [raised |-> FALSE, sel |-> st, heads |-> h, result |-> EmptyResult,
      losses |-> m.losses,
      calls |-> <<"select_training_samples", "box_roi_pool",
                  "box_predictor", "detection_loss">> \o m.calls,
      target_read |-> TRUE]

\* forward with self.train_mode unset; h is what box_predictor returned and
\* ords how nms broke its ties
ForwardInfer(proposal, h, ords) ==
  LET d == Detect(h.class_logit, h.box_regression, proposal, ords)
      r == DetectResult(d)
      m == IF MaskConfigured THEN InferMaskBranch(r)
           ELSE [result |-> r, calls |-> <<>>]
  IN IF Raises(d)
     THEN [raised |-> TRUE, sel |-> NoSel, heads |-> h,
           result |-> EmptyResult, losses |-> EmptyLosses,
           calls |-> <<"box_roi_pool", "box_predictor", "detect">>,
           target_read |-> FALSE]
     ELSE [raised |-> FALSE, sel |-> NoSel, heads |-> h,
           result |-> m.result, losses |-> EmptyLosses,
           calls |-> <<"box_roi_pool", "box_predictor", "detect">>
                     \o m.calls,
           target_read |-> FALSE]

(***************************************************************************)
(* The state machine.                                                      *)
(***************************************************************************)
Targets ==
  UNION {{[boxes |-> b, labels |-> l, masks |-> "gt_masks"] :
            b \in [1..n -> GtBoxSet], l \in [1..n -> GtLabelSet]} :
         n \in 1..MaxGt}

Init ==
  /\ train_mode \in BOOLEAN
  /\ mask_roi_pool = None
  /\ mask_predictor = None
  /\ num_samples \in NumSamplesSet
  /\ num_detections \in NumDetectionsSet
  \* the sampler is used in training only and the detection cap in
  \* inference only: the unused one is not varied
  /\ train_mode => num_detections = 1
  /\ ~train_mode => num_samples = 1
  /\ phase = "idle"
  /\ args = NoArgs
  /\ heads = NoHeads
  /\ smp = NoSmp
  /\ sel = NoSel
  /\ result = EmptyResult
  /\ losses = EmptyLosses
  /\ calls = <<>>
  /\ target_read = FALSE

ForgetCall ==
  /\ phase' = "idle"
  /\ args' = NoArgs
  /\ heads' = NoHeads
  /\ smp' = NoSmp
  /\ sel' = NoSel
  /\ result' = EmptyResult
  /\ losses' = EmptyLosses
  /\ calls' = <<>>
  /\ target_read' = FALSE

\* the owner of the head attaches the mask branch: head.mask_roi_pool = ...
SetMaskRoiPool ==
  /\ phase = "idle"
  /\ mask_roi_pool' = "RoIAlign"
  /\ ForgetCall
  /\ UNCHANGED <<train_mode, mask_predictor, num_samples, num_detections>>

\* head.mask_predictor = ...
SetMaskPredictor ==
  /\ phase = "idle"
  /\ mask_predictor' = "MaskRCNNPredictor"
  /\ ForgetCall
  /\ UNCHANGED <<train_mode, mask_roi_pool, num_samples, num_detections>>

Returned(proposal, target, loc, out) ==
  /\ phase' = IF out.raised THEN "raised" ELSE "returned"
  /\ args' = [proposal |-> proposal, target |-> target]
  /\ heads' = out.heads
  /\ smp' = loc
  /\ sel' = out.sel
  /\ result' = out.result
  /\ losses' = out.losses
  /\ calls' = out.calls
  /\ target_read' = out.target_read
  /\ UNCHANGED <<train_mode, mask_roi_pool, mask_predictor, num_samples,
                 num_detections>>

\* one call of forward(feature, proposal, image_shape, target)
Forward ==
  /\ phase = "idle"
  /\ \E proposal \in SeqsUpTo(BoxSet, 0, MaxProposals) :
       IF train_mode
       THEN \E target \in Targets :
              LET loc == MatchLocals(proposal, target)
              IN \E s \in Sampler(loc.pos_neg_label) :
                   Returned(proposal, target,
                            [proposal |-> loc.proposal,
                             pos_neg_label |-> loc.pos_neg_label,
                             matched_idx |-> loc.matched_idx,
                             pos_idx |-> s.pos_idx, neg_idx |-> s.neg_idx],
                            ForwardTrain(loc, target, s))
       ELSE \E cl \in [1..Len(proposal) -> LogitRows],
               br \in [1..Len(proposal) -> DeltaRows] :
              \E ords \in DetectOrders(cl, br, proposal) :
                Returned(proposal, NoTarget, NoSmp,
                         ForwardInfer(proposal,
                                      [class_logit |-> cl,
                                       box_regression |-> br],
                                      ords))

\* the caller drops the returned pair, or has seen the exception; the head
\* is ready for the next call
Forget ==
  /\ phase \in {"returned", "raised"}
  /\ ForgetCall
  /\ UNCHANGED <<train_mode, mask_roi_pool, mask_predictor, num_samples,
                 num_detections>>

Next == SetMaskRoiPool \/ SetMaskPredictor \/ Forward \/ Forget

Spec == Init /\ [][Next]_vars

(***************************************************************************)
(* Properties.                                                             *)
(***************************************************************************)
\* both mask collaborators are set on the head
BothMaskSet == mask_roi_pool # None /\ mask_predictor # None

TrainReturned == phase = "returned" /\ train_mode
InferReturned == phase = "returned" /\ ~train_mode
NumPos == Len(smp.pos_idx)
NumSampled == Len(smp.pos_idx) + Len(smp.neg_idx)
MaskCalls == {"mask_roi_pool", "mask_predictor", "mask_loss"}
Called(name) == \E i \in 1..Len(calls) : calls[i] = name

\* C1: select_training_samples returns labels, sampled proposals and matched
\* indices of one length, the number of positive plus negative samples; the
\* label of a positive sample is the class of the ground-truth box it is
\* matched to, and the label of every negative sample is 0.
C1_LabelsOfSamples ==
  TrainReturned =>
    /\ Len(sel.label) = NumSampled
    /\ Len(sel.proposal) = NumSampled
    /\ Len(sel.matched_idx) = NumSampled
    /\ \A i \in 1..NumSampled :
         /\ sel.matched_idx[i] =
              smp.matched_idx[(smp.pos_idx \o smp.neg_idx)[i]]
         /\ i <= NumPos =>
              sel.label[i] = args.target.labels[sel.matched_idx[i] + 1]
         /\ i > NumPos => sel.label[i] = 0

\* a positive and a negative sample, the negative one matched to a
\* ground-truth box of a non-zero class
C1_Witness ==
  /\ TrainReturned
  /\ NumPos >= 1
  /\ NumSampled > NumPos
  /\ args.target.labels[sel.matched_idx[NumSampled] + 1] # 0
  /\ sel.label[1] # 0

\* C2: there are exactly as many regression targets as positive indices the
\* sampler returned, and target i encodes the ground-truth box at the
\* returned matched index i against the returned proposal i.
C2_RegressionTargets ==
  TrainReturned =>
    /\ Len(sel.regression_target) = NumPos
    /\ \A i \in 1..NumPos :
         sel.regression_target[i] =
           EncodeOne(args.target.boxes[sel.matched_idx[i] + 1],
                     sel.proposal[i])

\* a positive sample that differs from its ground-truth box, next to a
\* negative sample
C2_Witness ==
  /\ TrainReturned
  /\ NumSampled > NumPos
  /\ \E i \in 1..NumPos :
       sel.proposal[i] # args.target.boxes[sel.matched_idx[i] + 1]

NumDet == Len(result.boxes)
\* the positions of the detections of class c
OfClass(c) == Where([i \in 1..Len(result.labels) |-> result.labels[i] = c])
\* detection i is proposal n under the class of its label: its score is the
\* softmax score and its box the decoded, clipped proposal
IsDetectionOf(i, n) ==
  LET c == result.labels[i]
  IN /\ result.scores[i] = softmax(heads.class_logit)[n][c + 1]
     /\ result.boxes[i] =
          ClipBox(DecodeOne(heads.box_regression[n][c + 1], args.proposal[n]),
                  image_shape)

\* C3: every detection detect returns has a score of at least the score
\* threshold, and boxes, labels and scores stay aligned: detection i is one
\* proposal's decoded and clipped box with that proposal's score for the
\* class of label i.
C3_ScoresAboveThreshold ==
  InferReturned =>
    /\ Len(result.labels) = NumDet
    /\ Len(result.scores) = NumDet
    /\ \A i \in 1..NumDet :
         /\ FracGeq(result.scores[i], score_thresh)
         /\ \E n \in 1..Len(args.proposal) : IsDetectionOf(i, n)

\* two detections of one class with different scores and boxes, while the
\* other class and a box outside the image were filtered out
C3_Witness ==
  /\ InferReturned
  /\ NumDet = 2
  /\ result.labels[1] = result.labels[2]
  /\ FracGt(result.scores[1], result.scores[2])
  /\ result.boxes[1] # result.boxes[2]
  /\ \E n \in 1..Len(args.proposal) :
       \E c \in ForegroundClasses :
         ~FracGeq(softmax(heads.class_logit)[n][c + 1], score_thresh)

\* C4 as stated: within a class no two detections have an IoU greater than
\* or equal to the NMS threshold, and at most num_detections are kept.
C4_NmsInvariantAsStated ==
  InferReturned =>
    \A c \in ForegroundClasses :
      /\ Len(OfClass(c)) <= num_detections
      /\ \A i, j \in 1..NumDet :
           (i # j /\ result.labels[i] = c /\ result.labels[j] = c) =>
             ~FracGeq(IoU(result.boxes[i], result.boxes[j]), nms_thresh)

\* C4, amended: within a class no two detections have an IoU greater than
\* the NMS threshold (an IoU equal to it is kept), and at most
\* num_detections are kept.
C4_NmsInvariant ==
  InferReturned =>
    \A c \in ForegroundClasses :
      /\ Len(OfClass(c)) <= num_detections
      /\ \A i, j \in 1..NumDet :
           (i # j /\ result.labels[i] = c /\ result.labels[j] = c) =>
             ~FracGt(IoU(result.boxes[i], result.boxes[j]), nms_thresh)

\* nms suppressed a box: two boxes of class 1 passed the score threshold and
\* process_box, the cap allows two, and one detection of class 1 is left
C4_Witness ==
  /\ InferReturned
  /\ num_detections = 2
  /\ Len(ClassCandidates(1, softmax(heads.class_logit), heads.box_regression,
                         args.proposal).box) = 2
  /\ Len(OfClass(1)) = 1

\* C9: every label detect returns is a foreground class; the output is the
\* concatenation, in class order, of what each class keeps from its own
\* scores and deltas (its candidates, nms in some descending-score order,
\* the cap), with no suppression across classes.
C9_PerClassConcatenation ==
  InferReturned =>
    /\ \A i \in 1..NumDet : result.labels[i] \in 1..(num_classes - 1)
    /\ \A i, j \in 1..NumDet : i < j => result.labels[i] <= result.labels[j]
    /\ \A c \in ForegroundClasses :
         LET cand == ClassCandidates(c, softmax(heads.class_logit),
                                     heads.box_regression, args.proposal)
         IN \E o \in NmsOrders(cand.score) :
              LET keep == Prefix(Nms(cand.box, nms_thresh, o), num_detections)
              IN /\ Index(result.boxes, OfClass(c)) = Index(cand.box, keep)
                 /\ Index(result.scores, OfClass(c)) = Index(cand.score, keep)

\* one proposal detected under class 1 and again under class 2
C9_Witness ==
  /\ InferReturned
  /\ \E i, j \in 1..NumDet :
       /\ result.labels[i] = 1
       /\ result.labels[j] = 2
       /\ \E n \in 1..Len(args.proposal) :
            IsDetectionOf(i, n) /\ IsDetectionOf(j, n)
       /\ result.boxes[i] = result.boxes[j]

\* C5: in training mode with the mask branch configured and no positive
\* sample, forward returns the empty result and the classifier, box and a
\* zero mask loss, and calls neither the mask pooling, nor the mask
\* predictor, nor mask_loss.
C5_NoPositiveShortCircuit ==
  (TrainReturned /\ BothMaskSet /\ Len(sel.regression_target) = 0) =>
    /\ result = EmptyResult
    /\ losses.keys = {"roi_classifier_loss", "roi_box_loss", "roi_mask_loss"}
    /\ losses.roi_mask_loss = ZeroTensor
    /\ \A name \in MaskCalls : ~Called(name)

\* such a call, with negative samples only
C5_Witness ==
  /\ TrainReturned
  /\ BothMaskSet
  /\ Len(sel.regression_target) = 0
  /\ Len(sel.proposal) >= 1

\* C6: in inference mode with the mask branch configured and no detection,
\* forward returns empty boxes, labels and scores, a masks entry holding 0
\* masks of 28 x 28, and the empty losses, and calls neither the mask
\* pooling nor the mask predictor.
C6_NoDetectionShortCircuit ==
  (InferReturned /\ BothMaskSet /\ NumDet = 0) =>
    /\ result.keys = {"boxes", "labels", "scores", "masks"}
    /\ result.boxes = <<>> /\ result.labels = <<>> /\ result.scores = <<>>
    /\ result.masks.shape = <<0, 28, 28>>
    /\ result.masks.rows = <<>>
    /\ losses = EmptyLosses
    /\ \A name \in MaskCalls : ~Called(name)

\* such a call, on proposals that were all filtered out
C6_Witness ==
  /\ InferReturned
  /\ BothMaskSet
  /\ NumDet = 0
  /\ Len(args.proposal) >= 1

\* C10: in inference mode with the mask branch configured and at least one
\* detection, forward returns one mask per detection, in detection order,
\* and mask i is the sigmoid of row i, channel label i, of the mask logits
\* predicted for the detection boxes.
C10_MaskOfPredictedClass ==
  (InferReturned /\ BothMaskSet /\ NumDet >= 1) =>
    /\ "masks" \in result.keys
    /\ Len(result.masks.rows) = NumDet
    /\ Len(result.labels) = NumDet
    /\ Len(result.scores) = NumDet
    /\ result.masks.shape = <<NumDet, MaskSide, MaskSide>>
    /\ \A i \in 1..NumDet :
         result.masks.rows[i] =
           Sigmoid(MaskPredictor(NumDet).rows[i][result.labels[i] + 1])
    /\ calls = <<"box_roi_pool", "box_predictor", "detect", "mask_roi_pool",
                 "mask_predictor">>

\* detections of both classes, each with its mask
C10_Witness ==
  /\ InferReturned
  /\ BothMaskSet
  /\ NumDet >= 3
  /\ result.labels[1] # result.labels[NumDet]
  /\ Len(result.masks.rows) = NumDet

\* what the mask branch may add to the calls of a forward in each mode
MaskCallsOf(mode) ==
  IF mode THEN {<<>>, <<"mask_roi_pool", "mask_predictor", "mask_loss">>}
  ELSE {<<>>, <<"mask_roi_pool", "mask_predictor">>}

C7_CallOrder ==
  phase = "returned" =>
    /\ train_mode =>
         /\ \E m \in MaskCallsOf(TRUE) :
              calls = <<"select_training_samples", "box_roi_pool",
                        "box_predictor", "detection_loss">> \o m
         /\ result = EmptyResult
         /\ {"roi_classifier_loss", "roi_box_loss"} \subseteq losses.keys
         /\ target_read
    /\ ~train_mode =>
         /\ \E m \in MaskCallsOf(FALSE) :
              calls = <<"box_roi_pool", "box_predictor", "detect">> \o m
         /\ {"boxes", "labels", "scores"} \subseteq result.keys
         /\ losses = EmptyLosses
         /\ ~target_read
    /\ ~BothMaskSet =>
         /\ \A name \in MaskCalls : ~Called(name)
         /\ "masks" \notin result.keys
         /\ "roi_mask_loss" \notin losses.keys

\* a call of forward ends by its return statement, not by an exception
C7_Returns == phase # "raised"

\* C7: forward follows the mode fixed at construction, which never changes:
\* in training mode the calls are sample selection, box pooling, box
\* prediction, detection loss, then the mask branch, and it returns the
\* empty result with the classifier and box losses; in inference mode they
\* are box pooling, box prediction, detect, then the mask branch, the
\* target is not read and it returns boxes, labels and scores with empty
\* losses; unless both mask collaborators are configured, none is called
\* and no masks or roi_mask_loss entry is produced.
C7_ModeAndCallOrder ==
  [][train_mode' = train_mode]_vars /\ [](C7_Returns /\ C7_CallOrder)

\* C8: the matcher and the sampler work on one combined sequence of
\* len(proposals) + len(ground truth) candidates: the proposals first, then
\* the ground-truth boxes; the sampled indices, the returned proposals and
\* matched indices and the regression targets refer to that sequence; every
\* matched index is a ground-truth index; so every ground-truth box has a
\* candidate identical to it, of IoU 1.
C8_CombinedIndexSpace ==
  TrainReturned =>
    LET P == Len(args.proposal)
        G == Len(args.target.boxes)
        idx == smp.pos_idx \o smp.neg_idx
    IN /\ Len(smp.proposal) = P + G
       /\ Len(smp.pos_neg_label) = P + G
       /\ Len(smp.matched_idx) = P + G
       /\ \A i \in 1..P : smp.proposal[i] = args.proposal[i]
       /\ \A j \in 1..G : smp.proposal[P + j] = args.target.boxes[j]
       /\ \A n \in 1..(P + G) : smp.matched_idx[n] \in 0..(G - 1)
       /\ \A k \in 1..Len(idx) :
            /\ idx[k] \in 1..(P + G)
            /\ sel.proposal[k] = smp.proposal[idx[k]]
            /\ sel.matched_idx[k] = smp.matched_idx[idx[k]]
       /\ \A k \in 1..NumPos :
            sel.regression_target[k] =
              EncodeOne(args.target.boxes[smp.matched_idx[smp.pos_idx[k]] + 1],
                        smp.proposal[smp.pos_idx[k]])
       /\ \A j \in 1..G :
            \E n \in 1..(P + G) :
              /\ smp.proposal[n] = args.target.boxes[j]
              /\ FracEq(IoU(args.target.boxes[j], smp.proposal[n]), <<1, 1>>)

\* two different ground-truth boxes behind a proposal, with a proposal and
\* an appended ground-truth box both sampled
C8_Witness ==
  /\ TrainReturned
  /\ Len(args.proposal) >= 1
  /\ Len(args.target.boxes) = 2
  /\ args.target.boxes[1] # args.target.boxes[2]
  /\ \E k \in 1..NumSampled :
       (smp.pos_idx \o smp.neg_idx)[k] > Len(args.proposal)
  /\ \E k \in 1..NumSampled :
       (smp.pos_idx \o smp.neg_idx)[k] <= Len(args.proposal)

====
